---- MODULE Spec2Model ----
(***************************************************************************)
(* A model of WorkerRenderService (src/unnamed/part_001): the render       *)
(* pipeline of short-video-maker.  The stages are modelled as actions over *)
(* one program counter `pc`; each specification below starts the pipeline  *)
(* at one stage, with that stage's inputs drawn from bounded sets.         *)
(*                                                                         *)
(*   ResolveSpec  resolveAssets        (pc "resolve_loop" .. "plan")       *)
(*   PlanSpec     buildRenderPlan      (pc "plan" .. "submit")             *)
(*   RenderSpec   renderWithRemotion   (pc "submit" .. "returned/thrown")  *)
(*                                                                         *)
(* Time is the value of Date.now() in milliseconds.  JavaScript runs the   *)
(* service on one thread, so time passes (Tick) only while it is suspended *)
(* in an await.                                                            *)
(***************************************************************************)
EXTENDS Integers, Sequences, FiniteSets, TLC

VARIABLES
    pc,           \* position of the invocation in the pipeline
    request,      \* the ShortVideoRenderRequest: scenes and config.assets
    \* ---- resolveAssets
    resolved,     \* ResolvedAsset[] being built
    idx,          \* position of the for-of loop in assets (1-based)
    buffer,       \* bytes returned by the download in flight
    files,        \* the temp directory: path -> bytes written
    downloads,    \* log of transport calls: <<url, outcome>>
    raised,       \* an exception that left the current stage
    \* ---- buildRenderPlan
    plan,         \* InternalRenderPlan
    \* ---- renderWithRemotion and the rendering collaborator
    clock,        \* Date.now()
    startTime,    \* local startTime
    wakeAt,       \* when the pending setTimeout is due
    status,       \* local status of the last poll
    result,       \* bytes returned by renderWithRemotion
    jobState,     \* the job's state inside ShortCreator
    jobVideo,     \* the job's rendered bytes, once ready
    readyAt,      \* when the job became ready
    submitCount,  \* number of addToQueue calls
    statusCount,  \* number of status calls
    fetchCount,   \* number of getVideo calls
    late,         \* ticks by which timers have fired late so far
    \* ---- renderVideo
    responseMode, \* this.config.responseMode
    correlationId,\* the invocation's correlation id
    audioBuffer,  \* the TTS audio downloaded
    log,          \* the logger calls of renderVideo, in order
    uploaded,     \* the files written by uploadVideo
    reply,        \* what renderVideo returned or threw
    \* ---- downloadWithTimeout
    fetchPhase,   \* position of one downloadWithTimeout call
    fetchStart,   \* when the call was made
    timerDue,     \* when the abort timer is due; -1 when it is not armed
    aborted,      \* controller.signal.aborted
    responseStatus, \* response.status, 0 before the headers
    fetchError,   \* the Error the call threw
    fetchTimeoutMs, \* the timeoutMs the call was given
    \* ---- one service serving several renderVideo calls
    invocations,  \* the locals of each call
    jobs,         \* the jobs of the rendering collaborator, by videoId
    tempDir       \* the files under config.tempDirPath

vars == <<pc, request, resolved, idx, buffer, files, downloads, raised, plan,
          clock, startTime, wakeAt, status, result, jobState, jobVideo,
          readyAt, submitCount, statusCount, fetchCount, late,
          responseMode, correlationId, audioBuffer, log, uploaded, reply,
          fetchPhase, fetchStart, timerDue, aborted, responseStatus,
          fetchError, fetchTimeoutMs, invocations, jobs, tempDir>>

pipeVars == <<responseMode, correlationId, audioBuffer, log, uploaded, reply>>
fetchVars == <<fetchPhase, fetchStart, timerDue, aborted, responseStatus,
               fetchError, fetchTimeoutMs>>
serviceVars == <<invocations, jobs, tempDir>>
resolveVars == <<resolved, idx, buffer, files, downloads>>
renderVars  == <<clock, startTime, wakeAt, status, result, jobState, jobVideo,
                 readyAt, submitCount, statusCount, fetchCount, late>>

None == "none"
NoPath == 0       \* localPath undefined; temp files are numbered from 1
NoPlan == [fps |-> 0, scenes |-> <<>>]   \* renderPlan not built yet

NoReply == [kind |-> "none", value |-> None]
NoError == [name |-> "none", kind |-> "none", status |-> 0, ms |-> 0]

\* before renderVideo has done anything
PipeInit ==
    /\ correlationId = None
    /\ audioBuffer = None
    /\ log = <<>>
    /\ uploaded = <<>>
    /\ reply = NoReply

\* no downloadWithTimeout call is being followed
FetchInit ==
    /\ fetchPhase = "idle"
    /\ fetchStart = 0
    /\ timerDue = -1
    /\ aborted = FALSE
    /\ responseStatus = 0
    /\ fetchError = NoError
    /\ fetchTimeoutMs = 0

\* no call has been made
ServiceInit ==
    /\ invocations = <<>>
    /\ jobs = <<>>
    /\ tempDir = <<>>

(***************************************************************************)
(* Program constants.                                                      *)
(***************************************************************************)
FPS == 30
timeoutMs == 180000
PollIntervalMs == 1000
DefaultDownloadTimeoutMs == 15000

(***************************************************************************)
(* Bounds of the model.                                                    *)
(***************************************************************************)
TickMs == 500          \* granularity of the clock
MaxLateTicks == 2      \* ticks by which the timers of one run may fire late
MaxClock == timeoutMs + 2 * PollIntervalMs + (MaxLateTicks + 1) * TickMs

Videos == {"mp4_a", "mp4_b"}

(***************************************************************************)
(* The request.  A validated request has at least one scene and every      *)
(* scene has a positive duration (validateRequest); durations are whole    *)
(* milliseconds.  config.assets need not be as long as scenes.  A scene's  *)
(* text is the sequence of its code points.                                *)
(***************************************************************************)
MaxScenes == 3
MaxAssets == 3

Durations == {1, 33, 34, 100, 101, 1000, 2000}
SearchTerms == {"cat", "dog"}
Urls == {"u1", "u2"}

SeqsUpTo(S, n) == UNION {[1..k -> S] : k \in 0..n}

Hi == <<104, 105>>
Yo == <<121, 111>>
NotAString == <<-1>>     \* a text that is no string

Scenes == [duration : Durations, text : {Hi}, searchTerms : {<<"cat">>}]
Assets == [searchTerms : SearchTerms, videoUrl : Urls \cup {None}]

(***************************************************************************)
(* resolveAssets.  The assets are taken one after the other: the loop      *)
(* awaits each download and each temp-file write before it goes on.        *)
(* tempPath is asset-<Date.now()>-<random>.mp4, a new name on every write: *)
(* the temp directory is the sequence `files`, a path is an index in it.   *)
(***************************************************************************)
\* how a call of downloadWithTimeout ends: the bytes, or an Error that is a
\* timer expiry, a non-2xx response or a transport failure
DownloadOutcomes == {"ok", "timeout", "http", "network"}
\* how fs.writeFile ends
WriteOutcomes == {"ok", "error"}

\* the bytes the transport returns for url
Body(url) == CASE url = "u1" -> "bytes_u1"
               [] url = "u2" -> "bytes_u2"
               [] url = "tts" -> "bytes_tts"

Downloaded(asset, path) ==
    [searchTerms |-> asset.searchTerms, videoUrl |-> asset.videoUrl,
     localPath |-> path]
Fallback(asset) ==
    [searchTerms |-> asset.searchTerms, videoUrl |-> None, localPath |-> NoPath]

\* resolved.push({searchTerms, videoUrl, localPath: tempPath})
PushDownloadedFirst(res, asset, path) == <<Downloaded(asset, path)>> \o res
PushDownloaded(res, asset, path) == Append(res, Downloaded(asset, path))

\* the catch block: warn and resolved.push({searchTerms, videoUrl: null})
CatchFallbackDropped(res, asset) == res
CatchFallback(res, asset) == Append(res, Fallback(asset))

\* the else branch: resolved.push({searchTerms, videoUrl: null})
NoUrlFallback(res, asset) == Append(res, Fallback(asset))

CurrentAsset == request.config.assets[idx]

\* the head of for (const asset of assets), and the branch on asset.videoUrl
ResolveAsset ==
    /\ pc = "resolve_loop"
    /\ idx <= Len(request.config.assets)
    /\ IF CurrentAsset.videoUrl # None
         THEN /\ pc' = "resolve_fetch"
              /\ UNCHANGED <<resolved, idx>>
         ELSE /\ resolved' = NoUrlFallback(resolved, CurrentAsset)
              /\ idx' = idx + 1
              /\ pc' = "resolve_loop"
    /\ UNCHANGED <<pipeVars, fetchVars, serviceVars, request, buffer, files, downloads, raised, plan, renderVars>>

\* await downloadWithTimeout(asset.videoUrl, timeoutMs, ...) ends
DownloadAssetFatal ==
    /\ pc = "resolve_fetch"
    /\ \E outcome \in DownloadOutcomes :
          /\ downloads' = Append(downloads,
                 [index |-> idx, url |-> CurrentAsset.videoUrl,
                  outcome |-> outcome])
          /\ IF outcome = "ok"
               THEN /\ buffer' = Body(CurrentAsset.videoUrl)
                    /\ pc' = "resolve_write"
                    /\ UNCHANGED raised
               ELSE /\ raised' = "Asset download failed"
                    /\ pc' = "thrown"
                    /\ UNCHANGED buffer
    /\ UNCHANGED <<pipeVars, fetchVars, serviceVars, request, resolved, idx, files, plan,
                   renderVars>>

DownloadAssetRetry ==
    /\ pc = "resolve_fetch"
    /\ \E outcome \in DownloadOutcomes :
          /\ downloads' = Append(downloads,
                 [index |-> idx, url |-> CurrentAsset.videoUrl,
                  outcome |-> outcome])
          /\ IF outcome = "ok"
               THEN /\ buffer' = Body(CurrentAsset.videoUrl)
                    /\ pc' = "resolve_write"
                    /\ UNCHANGED <<resolved, idx>>
               ELSE IF \A k \in 1..Len(downloads) : downloads[k].index # idx
               THEN /\ pc' = "resolve_fetch"
                    /\ UNCHANGED <<resolved, idx, buffer>>
               ELSE /\ resolved' = CatchFallback(resolved, CurrentAsset)
                    /\ idx' = idx + 1
                    /\ pc' = "resolve_loop"
                    /\ UNCHANGED buffer
    /\ UNCHANGED <<pipeVars, fetchVars, serviceVars, request, files, raised, plan, renderVars>>

DownloadAsset ==
    /\ pc = "resolve_fetch"
    /\ \E outcome \in DownloadOutcomes :
          /\ downloads' = Append(downloads,
                 [index |-> idx, url |-> CurrentAsset.videoUrl,
                  outcome |-> outcome])
          /\ IF outcome = "ok"
               THEN /\ buffer' = Body(CurrentAsset.videoUrl)
                    /\ pc' = "resolve_write"
                    /\ UNCHANGED <<resolved, idx>>
               ELSE /\ resolved' = CatchFallback(resolved, CurrentAsset)
                    /\ idx' = idx + 1
                    /\ pc' = "resolve_loop"
                    /\ UNCHANGED buffer
    /\ UNCHANGED <<pipeVars, fetchVars, serviceVars, request, files, raised, plan, renderVars>>

\* await fs.writeFile(tempPath, buffer) ends, and the push that follows it
WriteTempFile ==
    /\ pc = "resolve_write"
    /\ \E outcome \in WriteOutcomes :
          IF outcome = "ok"
            THEN /\ files' = Append(files, buffer)
                 /\ resolved' = PushDownloaded(resolved, CurrentAsset,
                                               Len(files) + 1)
            ELSE /\ resolved' = CatchFallback(resolved, CurrentAsset)
                 /\ UNCHANGED files
    /\ buffer' = None
    /\ idx' = idx + 1
    /\ pc' = "resolve_loop"
    /\ UNCHANGED <<pipeVars, fetchVars, serviceVars, request, downloads, raised, plan, renderVars>>

\* the loop is over: log the counts and return resolved
ResolveDone ==
    /\ pc = "resolve_loop"
    /\ idx > Len(request.config.assets)
    /\ pc' = "plan"
    /\ UNCHANGED <<pipeVars, fetchVars, serviceVars, request, resolveVars, raised, plan, renderVars>>

(***************************************************************************)
(* parseResolution.  A string is a sequence of one-character strings.      *)
(***************************************************************************)
Digits == {"0", "1", "2", "3", "4", "5", "6", "7", "8", "9"}

DigitValue(c) ==
    CASE c = "0" -> 0 [] c = "1" -> 1 [] c = "2" -> 2 [] c = "3" -> 3
      [] c = "4" -> 4 [] c = "5" -> 5 [] c = "6" -> 6 [] c = "7" -> 7
      [] c = "8" -> 8 [] c = "9" -> 9

RECURSIVE SkipSpaces(_)
SkipSpaces(str) ==
    IF str # <<>> /\ Head(str) = " " THEN SkipSpaces(Tail(str)) ELSE str

RECURSIVE DigitsValue(_, _)
DigitsValue(str, acc) ==
    IF str # <<>> /\ Head(str) \in Digits
      THEN DigitsValue(Tail(str), acc * 10 + DigitValue(Head(str)))
      ELSE acc

\* parseInt(str, 10): leading white space, an optional sign, then the longest
\* run of digits; NaN when there is no digit; what follows is ignored
ParseInt(str) ==
    LET t == SkipSpaces(str)
        signed == t # <<>> /\ Head(t) \in {"-", "+"}
        u == IF signed THEN Tail(t) ELSE t
    IN  IF u = <<>> \/ Head(u) \notin Digits
          THEN [nan |-> TRUE, value |-> 0]
          ELSE [nan |-> FALSE,
                value |-> IF signed /\ Head(t) = "-"
                            THEN 0 - DigitsValue(u, 0)
                            ELSE DigitsValue(u, 0)]

ResolutionFormatError == "Invalid resolution format"
ResolutionValuesError == "Invalid resolution values"

\* resolution.split("x") must give two parts, neither of which parses to NaN
ParseResolution(resolution) ==
    LET xs == {i \in 1..Len(resolution) : resolution[i] = "x"}
    IN  IF Cardinality(xs) # 1
          THEN [error |-> ResolutionFormatError, width |-> 0, height |-> 0]
          ELSE LET k == CHOOSE i \in xs : TRUE
                   w == ParseInt(SubSeq(resolution, 1, k - 1))
                   h == ParseInt(SubSeq(resolution, k + 1, Len(resolution)))
               IN  IF w.nan \/ h.nan
                     THEN [error |-> ResolutionValuesError,
                           width |-> 0, height |-> 0]
                     ELSE [error |-> None,
                           width |-> w.value, height |-> h.value]

(***************************************************************************)
(* buildRenderPlan                                                         *)
(***************************************************************************)
\* Math.ceil(a / b) for integers a >= 0, b > 0
CeilDiv(a, b) == (a + b - 1) \div b

\* durationFrames = Math.ceil((scene.duration * fps) / 1000)
DurationFramesFloor(duration) == (duration * FPS) \div 1000
DurationFramesNoMs(duration) == duration * FPS
DurationFrames(duration) == CeilDiv(duration * FPS, 1000)

\* /[\u0000-\u001F\u007F-\u009F]/
IsControl(c) == c \in 0..31 \/ c \in 127..159
\* /[^\u0000-\uFFFF]/u
IsNonBmp(c) == c \notin 0..65535

\* text.replace(control, '').replace(nonBmp, '')
SanitizeText(text) ==
    SelectSeq(SelectSeq(text, LAMBDA c : ~IsControl(c)),
              LAMBDA c : ~IsNonBmp(c))

RECURSIVE SumDuration(_, _)
\* scenes.reduce((sum, s) => sum + s.duration, 0), over the first n scenes
SumDuration(scenes, n) ==
    IF n = 0 THEN 0 ELSE SumDuration(scenes, n - 1) + scenes[n].duration

TotalDurationMs(req) == SumDuration(req.scenes, Len(req.scenes))
TotalFrames(req) == CeilDiv(TotalDurationMs(req) * FPS, 1000)

\* asset?.localPath, where asset = resolvedAssets[i]
AssetPathWrapped(resolvedAssets, i) ==
    IF resolvedAssets = <<>> THEN NoPath
    ELSE resolvedAssets[((i - 1) % Len(resolvedAssets)) + 1].localPath

AssetPath(resolvedAssets, i) ==
    IF i <= Len(resolvedAssets) THEN resolvedAssets[i].localPath ELSE NoPath

RECURSIVE BuildScenesFromMs(_, _, _, _)
BuildScenesFromMs(scenes, resolvedAssets, i, currentFrame) ==
    IF i > Len(scenes) THEN <<>>
    ELSE <<[id |-> i - 1,
            startFrame |-> DurationFrames(SumDuration(scenes, i - 1)),
            durationInFrames |-> DurationFrames(scenes[i].duration),
            duration |-> scenes[i].duration,
            text |-> SanitizeText(scenes[i].text),
            assetPath |-> AssetPath(resolvedAssets, i),
            searchTerms |-> scenes[i].searchTerms]>>
         \o BuildScenesFromMs(scenes, resolvedAssets, i + 1, currentFrame)

RECURSIVE BuildScenes(_, _, _, _)
\* the loop over request.scenes from index i on (1-based), with the running
\* currentFrame
BuildScenes(scenes, resolvedAssets, i, currentFrame) ==
    IF i > Len(scenes) THEN <<>>
    ELSE <<[id |-> i - 1,
            startFrame |-> currentFrame,
            durationInFrames |-> DurationFrames(scenes[i].duration),
            duration |-> scenes[i].duration,
            text |-> SanitizeText(scenes[i].text),
            assetPath |-> AssetPath(resolvedAssets, i),
            searchTerms |-> scenes[i].searchTerms]>>
         \o BuildScenes(scenes, resolvedAssets, i + 1,
                        currentFrame + DurationFrames(scenes[i].duration))

BuildRenderPlanStateful(req, audio, resolvedAssets) ==
    [width |-> ParseResolution(req.config.resolution).width,
     height |-> ParseResolution(req.config.resolution).height,
     fps |-> FPS,
     scenes |-> BuildScenes(req.scenes, resolvedAssets, 1, Len(plan.scenes)),
     audioBuffer |-> audio]

BuildRenderPlan(req, audio, resolvedAssets) ==
    [width |-> ParseResolution(req.config.resolution).width,
     height |-> ParseResolution(req.config.resolution).height,
     fps |-> FPS,
     scenes |-> BuildScenes(req.scenes, resolvedAssets, 1, 0),
     audioBuffer |-> audio]

\* renderPlan = this.buildRenderPlan(validatedRequest, audioBuffer, resolvedAssets)
BuildPlan ==
    /\ pc = "plan"
    /\ plan' = BuildRenderPlan(request, audioBuffer, resolved)
    /\ pc' = "submit"
    /\ UNCHANGED <<pipeVars, fetchVars, serviceVars, request, resolveVars, raised, renderVars>>

(***************************************************************************)
(* renderWithRemotion                                                      *)
(***************************************************************************)
RenderFailedError == "ShortCreator render failed"
RenderTimeoutError == "Render timed out"

RenderInit ==
    /\ clock = 0
    /\ startTime = 0
    /\ wakeAt = 0
    /\ status = None
    /\ result = None
    /\ jobState = None
    /\ jobVideo = None
    /\ readyAt = 0
    /\ submitCount = 0
    /\ statusCount = 0
    /\ fetchCount = 0
    /\ late = 0

\* videoId = await shortCreator.addToQueue(...); startTime = Date.now()
AddToQueue ==
    /\ pc = "submit"
    /\ submitCount' = submitCount + 1
    /\ jobState' = "queued"
    /\ startTime' = clock
    /\ pc' = "loop"
    /\ UNCHANGED <<pipeVars, fetchVars, serviceVars, request, resolveVars, raised, plan, clock, wakeAt, status,
                   result, jobVideo, readyAt, statusCount, fetchCount, late>>

\* the loop condition: Date.now() - startTime < timeoutMs
DeadlineOpenAlways == TRUE
DeadlineOpenShort == clock - startTime < timeoutMs - PollIntervalMs
DeadlineOpenInclusive == clock - startTime <= timeoutMs
DeadlineOpen == clock - startTime < timeoutMs

\* one iteration of the loop body, up to the await of the 1 s timer
PollRetry ==
    /\ pc = "loop"
    /\ DeadlineOpen
    /\ statusCount' = statusCount + 1
    /\ status' = jobState
    /\ IF jobState = "ready"
         THEN /\ fetchCount' = fetchCount + 1
              /\ result' = jobVideo
              /\ pc' = "returned"
              /\ UNCHANGED <<raised, wakeAt>>
         ELSE IF jobState = "failed"
         THEN /\ pc' = "submit"
              /\ UNCHANGED <<fetchCount, result, wakeAt, raised>>
         ELSE /\ wakeAt' = clock + PollIntervalMs
              /\ pc' = "sleep"
              /\ UNCHANGED <<fetchCount, result, raised>>
    /\ UNCHANGED <<pipeVars, fetchVars, serviceVars, request, resolveVars, plan, clock, startTime, jobState,
                   jobVideo, readyAt, submitCount, late>>

PollIgnoreFailed ==
    /\ pc = "loop"
    /\ DeadlineOpen
    /\ statusCount' = statusCount + 1
    /\ status' = jobState
    /\ IF jobState = "ready"
         THEN /\ fetchCount' = fetchCount + 1
              /\ result' = jobVideo
              /\ pc' = "returned"
              /\ UNCHANGED <<raised, wakeAt>>
         ELSE /\ wakeAt' = clock + PollIntervalMs
              /\ pc' = "sleep"
              /\ UNCHANGED <<fetchCount, result, raised>>
    /\ UNCHANGED <<pipeVars, fetchVars, serviceVars, request, resolveVars, plan, clock, startTime, jobState,
                   jobVideo, readyAt, submitCount, late>>

Poll ==
    /\ pc = "loop"
    /\ DeadlineOpen
    /\ statusCount' = statusCount + 1
    /\ status' = jobState
    /\ IF jobState = "ready"
         THEN /\ fetchCount' = fetchCount + 1
              /\ result' = jobVideo
              /\ pc' = "returned"
              /\ UNCHANGED <<raised, wakeAt>>
         ELSE IF jobState = "failed"
         THEN /\ raised' = RenderFailedError
              /\ pc' = "thrown"
              /\ UNCHANGED <<fetchCount, result, wakeAt>>
         ELSE /\ wakeAt' = clock + PollIntervalMs
              /\ pc' = "sleep"
              /\ UNCHANGED <<fetchCount, result, raised>>
    /\ UNCHANGED <<pipeVars, fetchVars, serviceVars, request, resolveVars, plan, clock, startTime, jobState,
                   jobVideo, readyAt, submitCount, late>>

\* the loop condition is false: throw new Error('Render timed out')
Timeout ==
    /\ pc = "loop"
    /\ ~DeadlineOpen
    /\ raised' = RenderTimeoutError
    /\ pc' = "thrown"
    /\ UNCHANGED <<pipeVars, fetchVars, serviceVars, request, resolveVars, plan, renderVars>>

\* the timer of setTimeout(resolve, 1000) fires, not before it is due
WakeEarly ==
    /\ pc = "sleep"
    /\ pc' = "loop"
    /\ UNCHANGED <<pipeVars, fetchVars, serviceVars, request, resolveVars, raised, plan, renderVars>>

Wake ==
    /\ pc = "sleep"
    /\ clock >= wakeAt
    /\ pc' = "loop"
    /\ UNCHANGED <<pipeVars, fetchVars, serviceVars, request, resolveVars, raised, plan, renderVars>>

\* time passes while the invocation is suspended in the timer
Tick ==
    /\ pc = "sleep"
    /\ clock < wakeAt \/ late < MaxLateTicks
    /\ clock < MaxClock
    /\ clock' = clock + TickMs
    /\ late' = IF clock >= wakeAt THEN late + 1 ELSE late
    /\ UNCHANGED <<pc, pipeVars, fetchVars, serviceVars, request, resolveVars, raised, plan, startTime, wakeAt,
                   status, result, jobState, jobVideo, readyAt, submitCount,
                   statusCount, fetchCount>>

\* the rendering collaborator moves the job on: transitions are its own
Collaborator ==
    /\ jobState \in {"queued", "rendering"}
    /\ \/ /\ jobState = "queued"
          /\ jobState' = "rendering"
          /\ UNCHANGED <<jobVideo, readyAt>>
       \/ /\ jobState' = "failed"
          /\ UNCHANGED <<jobVideo, readyAt>>
       \/ /\ jobState' = "ready"
          /\ jobVideo' \in Videos
          /\ readyAt' = clock
    /\ UNCHANGED <<pc, pipeVars, fetchVars, serviceVars, request, resolveVars, raised, plan, clock, startTime,
                   wakeAt, status, result, submitCount, statusCount, fetchCount,
                   late>>

RenderNext ==
    \/ AddToQueue
    \/ Poll
    \/ Timeout
    \/ Wake
    \/ Tick
    \/ Collaborator

RenderSpecInit ==
    /\ pc = "submit"
    /\ request = None
    /\ resolved = <<>>
    /\ idx = 1
    /\ buffer = None
    /\ files = <<>>
    /\ downloads = <<>>
    /\ raised = None
    /\ plan = NoPlan
    /\ RenderInit
    /\ ServiceInit
    /\ responseMode = "binary"
    /\ PipeInit
    /\ FetchInit

RenderSpec == RenderSpecInit /\ [][RenderNext]_vars

\* the event loop runs every continuation that is ready, and time passes
RenderFairSpec ==
    /\ RenderSpec
    /\ WF_vars(AddToQueue)
    /\ WF_vars(Poll)
    /\ WF_vars(Timeout)
    /\ WF_vars(Wake)
    /\ WF_vars(Tick)

(***************************************************************************)
(* validateRequest.  request.absent names the fields the request lacks;    *)
(* a scene text that is no string is NotAString.                           *)
(***************************************************************************)
SceneTextNotString(i) ==
    CASE i = 0 -> "Scene 0: text must be a string"
      [] i = 1 -> "Scene 1: text must be a string"
      [] OTHER -> "Scene 2: text must be a string"
SceneTextEmpty(i) ==
    CASE i = 0 -> "Scene 0: text cannot be empty"
      [] i = 1 -> "Scene 1: text cannot be empty"
      [] OTHER -> "Scene 2: text cannot be empty"
SceneDurationNotPositive(i) ==
    CASE i = 0 -> "Scene 0: duration must be a positive number"
      [] i = 1 -> "Scene 1: duration must be a positive number"
      [] OTHER -> "Scene 2: duration must be a positive number"

\* scene.text.trim().length = 0
WhiteSpace ==
    {9, 10, 11, 12, 13, 32, 160, 5760, 8232, 8233, 8239, 8287, 12288, 65279}
    \cup 8192..8202
Blank(text) == \A i \in 1..Len(text) : text[i] \in WhiteSpace

\* the three asserts on scene i (0-based), "ok" when they pass
ValidateScene(scene, i) ==
    IF scene.text = NotAString THEN SceneTextNotString(i)
    ELSE IF Blank(scene.text) THEN SceneTextEmpty(i)
    ELSE IF ~(scene.duration > 0) THEN SceneDurationNotPositive(i)
    ELSE "ok"

RECURSIVE ValidateScenes(_, _)
\* the loop over the scenes from index i on (1-based), to the first failure
ValidateScenes(scenes, i) ==
    IF i > Len(scenes) THEN "ok"
    ELSE IF ValidateScene(scenes[i], i - 1) # "ok"
      THEN ValidateScene(scenes[i], i - 1)
      ELSE ValidateScenes(scenes, i + 1)

\* the checks on config.resolution
ValidateResolutionNoCheck(resolution) == "ok"
ValidateResolution(resolution) ==
    LET r == ParseResolution(resolution)
    IN  IF r.error # None THEN r.error
        ELSE IF ~(r.width > 0 /\ r.height > 0) THEN ResolutionValuesError
        ELSE "ok"

\* the message of the first assert that fails, "ok" when none does
ValidateRequest(req) ==
    IF "scenes" \in req.absent THEN "scenes must be an array"
    ELSE IF Len(req.scenes) = 0 THEN "scenes array cannot be empty"
    ELSE IF ValidateScenes(req.scenes, 1) # "ok"
      THEN ValidateScenes(req.scenes, 1)
    ELSE IF "config" \in req.absent THEN "config is required"
    ELSE IF req.config.ttsUrl = None THEN "config.ttsUrl must be a string"
    ELSE IF req.config.ttsUrl = "" THEN "config.ttsUrl cannot be empty"
    ELSE ValidateResolution(req.config.resolution)

(***************************************************************************)
(* renderVideo                                                             *)
(***************************************************************************)
CorrelationIds == {"render-1"}
TtsFailedError == "Failed to download TTS audio"
UploadWriteError == "writeFile failed"
UploadedUrl == "https://storage.example.com/videos/video.mp4"

LogEvent(level, msg) == [level |-> level, msg |-> msg, cid |-> correlationId]

\* correlationId is generated and 'Starting video render' is logged with
\* request.scenes.length and request.config.resolution, before the try
StartRender ==
    /\ pc = "start"
    /\ \E cid \in CorrelationIds :
          /\ correlationId' = cid
          /\ IF request.absent # {}
               THEN /\ reply' = [kind |-> "crash", value |-> "TypeError"]
                    /\ pc' = "crashed"
                    /\ UNCHANGED log
               ELSE /\ log' = Append(log,
                          [level |-> "info", msg |-> "Starting video render",
                           cid |-> cid])
                    /\ pc' = "validate"
                    /\ UNCHANGED reply
    /\ UNCHANGED <<responseMode, audioBuffer, uploaded, fetchVars, serviceVars, request,
                   resolveVars, raised, plan, renderVars>>

\* 1. validatedRequest = this.validateRequest(request, correlationId)
ValidateSkipsAudio ==
    /\ pc = "validate"
    /\ IF ValidateRequest(request) = "ok"
         THEN /\ log' = Append(log, LogEvent("info", "Request validation passed"))
              /\ pc' = "resolve_loop"
              /\ UNCHANGED raised
         ELSE /\ raised' = ValidateRequest(request)
              /\ pc' = "thrown"
              /\ UNCHANGED log
    /\ UNCHANGED <<responseMode, correlationId, audioBuffer, uploaded, reply,
                   fetchVars, serviceVars, request, resolveVars, plan, renderVars>>

Validate ==
    /\ pc = "validate"
    /\ IF ValidateRequest(request) = "ok"
         THEN /\ log' = Append(log, LogEvent("info", "Request validation passed"))
              /\ pc' = "audio"
              /\ UNCHANGED raised
         ELSE /\ raised' = ValidateRequest(request)
              /\ pc' = "thrown"
              /\ UNCHANGED log
    /\ UNCHANGED <<responseMode, correlationId, audioBuffer, uploaded, reply,
                   fetchVars, serviceVars, request, resolveVars, plan, renderVars>>

\* 2. audioBuffer = await this.downloadTtsAudio(ttsUrl, correlationId)
DownloadTtsAudioSwallow ==
    /\ pc = "audio"
    /\ \E outcome \in DownloadOutcomes :
          /\ downloads' = Append(downloads,
                 [index |-> 0, url |-> request.config.ttsUrl,
                  outcome |-> outcome])
          /\ audioBuffer' = IF outcome = "ok" THEN Body(request.config.ttsUrl)
                            ELSE ""
          /\ log' = Append(log, LogEvent("info", "TTS audio downloaded"))
          /\ pc' = "resolve_loop"
          /\ UNCHANGED raised
    /\ UNCHANGED <<responseMode, correlationId, uploaded, reply, fetchVars, serviceVars,
                   request, resolved, idx, buffer, files, plan, renderVars>>

DownloadTtsAudio ==
    /\ pc = "audio"
    /\ \E outcome \in DownloadOutcomes :
          /\ downloads' = Append(downloads,
                 [index |-> 0, url |-> request.config.ttsUrl,
                  outcome |-> outcome])
          /\ IF outcome = "ok"
               THEN /\ audioBuffer' = Body(request.config.ttsUrl)
                    /\ log' = Append(log, LogEvent("info", "TTS audio downloaded"))
                    /\ pc' = "resolve_loop"
                    /\ UNCHANGED raised
               ELSE /\ raised' = TtsFailedError
                    /\ pc' = "thrown"
                    /\ UNCHANGED <<audioBuffer, log>>
    /\ UNCHANGED <<responseMode, correlationId, uploaded, reply, fetchVars, serviceVars,
                   request, resolved, idx, buffer, files, plan, renderVars>>

\* 6. the branch on this.config.responseMode, and the binary return
DispatchSwapped ==
    /\ pc = "returned"
    /\ IF responseMode # "url"
         THEN /\ log' = Append(log, LogEvent("info", "Uploading video for URL response"))
              /\ pc' = "upload"
              /\ UNCHANGED reply
         ELSE /\ log' = Append(log, LogEvent("info", "Video render complete (binary mode)"))
              /\ reply' = [kind |-> "binary", value |-> result]
              /\ pc' = "done"
    /\ UNCHANGED <<responseMode, correlationId, audioBuffer, uploaded,
                   fetchVars, serviceVars, request, resolveVars, raised, plan, renderVars>>

Dispatch ==
    /\ pc = "returned"
    /\ IF responseMode = "url"
         THEN /\ log' = Append(log, LogEvent("info", "Uploading video for URL response"))
              /\ pc' = "upload"
              /\ UNCHANGED reply
         ELSE /\ log' = Append(log, LogEvent("info", "Video render complete (binary mode)"))
              /\ reply' = [kind |-> "binary", value |-> result]
              /\ pc' = "done"
    /\ UNCHANGED <<responseMode, correlationId, audioBuffer, uploaded,
                   fetchVars, serviceVars, request, resolveVars, raised, plan, renderVars>>

\* videoUrl = await this.uploadVideo(videoBuffer, correlationId); return {videoUrl}
UploadVideoFallsBack ==
    /\ pc = "upload"
    /\ \E outcome \in WriteOutcomes :
          IF outcome = "ok"
            THEN /\ uploaded' = Append(uploaded, result)
                 /\ log' = Append(log, LogEvent("info", "Video uploaded for URL response"))
                 /\ reply' = [kind |-> "url", value |-> UploadedUrl]
                 /\ pc' = "done"
                 /\ UNCHANGED raised
            ELSE /\ reply' = [kind |-> "binary", value |-> result]
                 /\ raised' = UploadWriteError
                 /\ pc' = "done"
                 /\ UNCHANGED <<uploaded, log>>
    /\ UNCHANGED <<responseMode, correlationId, audioBuffer, fetchVars, serviceVars,
                   request, resolveVars, plan, renderVars>>

UploadVideo ==
    /\ pc = "upload"
    /\ \E outcome \in WriteOutcomes :
          IF outcome = "ok"
            THEN /\ uploaded' = Append(uploaded, result)
                 /\ log' = Append(log, LogEvent("info", "Video uploaded for URL response"))
                 /\ reply' = [kind |-> "url", value |-> UploadedUrl]
                 /\ pc' = "done"
                 /\ UNCHANGED raised
            ELSE /\ raised' = UploadWriteError
                 /\ pc' = "thrown"
                 /\ UNCHANGED <<uploaded, log, reply>>
    /\ UNCHANGED <<responseMode, correlationId, audioBuffer, fetchVars, serviceVars,
                   request, resolveVars, plan, renderVars>>

\* the catch of renderVideo: log the error with the correlation id and
\* throw new Error(`Rendering failed: ${normalized.message}`)
CatchError ==
    /\ pc = "thrown"
    /\ log' = Append(log, LogEvent("error", raised))
    /\ reply' = [kind |-> "error", value |-> raised]
    /\ pc' = "failed"
    /\ UNCHANGED <<responseMode, correlationId, audioBuffer, uploaded,
                   fetchVars, serviceVars, request, resolveVars, raised, plan, renderVars>>

(***************************************************************************)
(* ResolveSpec: resolveAssets on every asset list of the bounds.           *)
(***************************************************************************)
ResolveRequests ==
    {[scenes |-> <<[duration |-> 1000]>>, config |-> [assets |-> as]] :
        as \in SeqsUpTo(Assets, MaxAssets)}

ResolveSpecInit ==
    /\ pc = "resolve_loop"
    /\ request \in ResolveRequests
    /\ resolved = <<>>
    /\ idx = 1
    /\ buffer = None
    /\ files = <<>>
    /\ downloads = <<>>
    /\ raised = None
    /\ plan = NoPlan
    /\ RenderInit
    /\ ServiceInit
    /\ responseMode = "binary"
    /\ PipeInit
    /\ FetchInit

ResolveNext ==
    \/ ResolveAsset
    \/ DownloadAsset
    \/ WriteTempFile
    \/ ResolveDone

ResolveSpec == ResolveSpecInit /\ [][ResolveNext]_vars

\* every download and every write ends, and the loop goes on when it has
ResolveFairSpec ==
    /\ ResolveSpec
    /\ WF_vars(ResolveAsset)
    /\ WF_vars(DownloadAsset)
    /\ WF_vars(WriteTempFile)
    /\ WF_vars(ResolveDone)

(***************************************************************************)
(* PipelineSpec: renderVideo from its first statement, in both response    *)
(* modes, on a request that passes validation and on requests that fail    *)
(* one or several of its checks or lack a field.                           *)
(***************************************************************************)
Res1080x1920 == <<"1", "0", "8", "0", "x", "1", "9", "2", "0">>
Res1080 == <<"1", "0", "8", "0">>
Res0x1920 == <<"0", "x", "1", "9", "2", "0">>

GoodScenes == <<[text |-> Hi, duration |-> 1000, searchTerms |-> <<"cat">>],
                [text |-> Yo, duration |-> 34, searchTerms |-> <<>>]>>
GoodConfig == [resolution |-> Res1080x1920, ttsUrl |-> "tts",
               assets |-> <<[searchTerms |-> "cat", videoUrl |-> "u1"],
                            [searchTerms |-> "dog", videoUrl |-> None]>>]
GoodRequest == [scenes |-> GoodScenes, config |-> GoodConfig, absent |-> {}]

PipelineRequests ==
    {GoodRequest,
     [GoodRequest EXCEPT !.config.resolution = Res1080],
     [GoodRequest EXCEPT !.config.resolution = Res0x1920],
     [GoodRequest EXCEPT !.config.ttsUrl = ""],
     [GoodRequest EXCEPT !.scenes = <<>>],
     [GoodRequest EXCEPT !.scenes[2].text = <<32>>],
     [GoodRequest EXCEPT !.scenes[1].text = NotAString],
     [GoodRequest EXCEPT !.scenes[2].duration = 0],
     [GoodRequest EXCEPT !.scenes[1].duration = 0,
                         !.config.resolution = Res1080],
     [GoodRequest EXCEPT !.scenes = <<>>, !.absent = {"scenes"}],
     [GoodRequest EXCEPT !.absent = {"config"}],
     [GoodRequest EXCEPT !.scenes[1].text = <<>>, !.absent = {"config"}]}

PipelineSpecInit ==
    /\ pc = "start"
    /\ request \in PipelineRequests
    /\ responseMode \in {"binary", "url"}
    /\ resolved = <<>>
    /\ idx = 1
    /\ buffer = None
    /\ files = <<>>
    /\ downloads = <<>>
    /\ raised = None
    /\ plan = NoPlan
    /\ RenderInit
    /\ ServiceInit
    /\ PipeInit
    /\ FetchInit

PipelineNext ==
    \/ StartRender
    \/ Validate
    \/ DownloadTtsAudio
    \/ ResolveAsset
    \/ DownloadAsset
    \/ WriteTempFile
    \/ ResolveDone
    \/ BuildPlan
    \/ AddToQueue
    \/ Poll
    \/ Timeout
    \/ Wake
    \/ Tick
    \/ Collaborator
    \/ Dispatch
    \/ UploadVideo
    \/ CatchError

PipelineSpec == PipelineSpecInit /\ [][PipelineNext]_vars

(***************************************************************************)
(* ValidateSpec: renderVideo up to the end of validateRequest, on requests *)
(* that differ in config.resolution only.                                  *)
(***************************************************************************)
MaxResLen == 5
ResChars == {"0", "1", "x", "p", ".", "-", " "}
ResolutionStrings == SeqsUpTo(ResChars, MaxResLen)

ValidateRequests ==
    {[GoodRequest EXCEPT !.config.resolution = r] : r \in ResolutionStrings}

ValidateSpecInit ==
    /\ pc = "start"
    /\ request \in ValidateRequests
    /\ responseMode = "binary"
    /\ resolved = <<>>
    /\ idx = 1
    /\ buffer = None
    /\ files = <<>>
    /\ downloads = <<>>
    /\ raised = None
    /\ plan = NoPlan
    /\ RenderInit
    /\ ServiceInit
    /\ PipeInit
    /\ FetchInit

ValidateNext ==
    \/ StartRender
    \/ Validate
    \/ CatchError

ValidateSpec == ValidateSpecInit /\ [][ValidateNext]_vars

(***************************************************************************)
(* Properties of validateRequest and parseResolution.                      *)
(***************************************************************************)
\* a string of digits that is not zero
PositiveInteger(str) ==
    /\ str # <<>>
    /\ \A i \in 1..Len(str) : str[i] \in Digits
    /\ \E i \in 1..Len(str) : str[i] # "0"

\* "<int>x<int>" with both components positive integers
WellFormed(resolution) ==
    \E k \in 1..Len(resolution) :
        /\ resolution[k] = "x"
        /\ PositiveInteger(SubSeq(resolution, 1, k - 1))
        /\ PositiveInteger(SubSeq(resolution, k + 1, Len(resolution)))

\* C23: validation accepts a resolution exactly when it is "<int>x<int>"
\* with both components positive integers, and rejects every other string
\* with one and the same format error.
ResolutionAcceptedIffWellFormed ==
    /\ pc = "audio" => WellFormed(request.config.resolution)
    /\ pc = "failed" =>
          /\ ~WellFormed(request.config.resolution)
          /\ raised = ResolutionFormatError

(***************************************************************************)
(* ConcurrentSpec: one WorkerRenderService serving two renderVideo calls   *)
(* that interleave at their awaits, and calls made after others have       *)
(* ended.  Each call has its own locals; the calls share config, the       *)
(* rendering collaborator and the temp directory.  A call is followed      *)
(* stage by stage; time is left out, so the render may time out whenever   *)
(* the call is in the polling loop.                                        *)
(***************************************************************************)
Callers == {1, 2}

ConcurrentRequests ==
    {GoodRequest,
     [GoodRequest EXCEPT !.config.resolution = Res1080],
     [GoodRequest EXCEPT !.scenes = <<>>, !.absent = {"scenes"}]}

\* the bytes getVideo gives for a job
JobVideo(videoId) == <<"mp4", videoId>>

\* everything that belongs to the single call followed by the other
\* specifications
callVars == <<pc, request, resolveVars, raised, plan, renderVars,
              correlationId, audioBuffer, log, uploaded, reply, fetchVars>>

NotCalled(req) ==
    [pc |-> "idle", request |-> req, cid |-> None, after |-> {},
     audio |-> None, resolved |-> <<>>, plan |-> NoPlan, videoId |-> 0,
     raised |-> None, reply |-> NoReply]

\* the calls that have ended in failure
Failed == {j \in Callers : invocations[j].pc \in {"failed", "crashed"}}

\* the server calls renderVideo(request)
AcceptRequest(i) ==
    /\ invocations[i].pc = "idle"
    /\ invocations' = [invocations EXCEPT ![i].pc = "start",
                                          ![i].after = Failed]
    /\ UNCHANGED <<jobs, tempDir, callVars, responseMode>>

\* correlationId is generated; logger.info reads request.scenes.length and
\* request.config.resolution before the try
EnterRenderVideo(i) ==
    /\ invocations[i].pc = "start"
    /\ invocations' =
          [invocations EXCEPT
              ![i].cid = <<"render", i>>,
              ![i].pc = IF invocations[i].request.absent # {}
                          THEN "crashed" ELSE "validate",
              ![i].reply = IF invocations[i].request.absent # {}
                             THEN [kind |-> "crash", value |-> "TypeError"]
                             ELSE NoReply]
    /\ UNCHANGED <<jobs, tempDir, callVars, responseMode>>

\* this.validateRequest(request, correlationId)
RunValidateRequest(i) ==
    /\ invocations[i].pc = "validate"
    /\ invocations' =
          IF ValidateRequest(invocations[i].request) = "ok"
            THEN [invocations EXCEPT ![i].pc = "audio"]
            ELSE [invocations EXCEPT
                     ![i].raised = ValidateRequest(invocations[i].request),
                     ![i].pc = "thrown"]
    /\ UNCHANGED <<jobs, tempDir, callVars, responseMode>>

\* await this.downloadTtsAudio(...)
RunDownloadTtsAudio(i) ==
    /\ invocations[i].pc = "audio"
    /\ \E outcome \in DownloadOutcomes :
          invocations' =
              IF outcome = "ok"
                THEN [invocations EXCEPT
                         ![i].audio = Body(invocations[i].request.config.ttsUrl),
                         ![i].pc = "resolve"]
                ELSE [invocations EXCEPT ![i].raised = TtsFailedError,
                                         ![i].pc = "thrown"]
    /\ UNCHANGED <<jobs, tempDir, callVars, responseMode>>

\* one iteration of the loop of resolveAssets, or its return
RunResolveAsset(i) ==
    /\ invocations[i].pc = "resolve"
    /\ LET inv == invocations[i]
           assets == inv.request.config.assets
           k == Len(inv.resolved) + 1
       IN  IF k > Len(assets)
             THEN /\ invocations' = [invocations EXCEPT ![i].pc = "plan"]
                  /\ UNCHANGED tempDir
           ELSE IF assets[k].videoUrl = None
             THEN /\ invocations' =
                        [invocations EXCEPT
                            ![i].resolved = NoUrlFallback(inv.resolved, assets[k])]
                  /\ UNCHANGED tempDir
           ELSE \E outcome \in DownloadOutcomes, written \in WriteOutcomes :
                  IF outcome = "ok" /\ written = "ok"
                    THEN /\ tempDir' = Append(tempDir,
                                [owner |-> i, content |-> Body(assets[k].videoUrl)])
                         /\ invocations' =
                               [invocations EXCEPT
                                   ![i].resolved =
                                       PushDownloaded(inv.resolved, assets[k],
                                                      Len(tempDir) + 1)]
                    ELSE /\ invocations' =
                               [invocations EXCEPT
                                   ![i].resolved =
                                       CatchFallback(inv.resolved, assets[k])]
                         /\ UNCHANGED tempDir
    /\ UNCHANGED <<jobs, callVars, responseMode>>

\* this.buildRenderPlan(validatedRequest, audioBuffer, resolvedAssets)
RunBuildRenderPlan(i) ==
    /\ invocations[i].pc = "plan"
    /\ invocations' =
          [invocations EXCEPT
              ![i].plan = BuildRenderPlan(invocations[i].request,
                                          invocations[i].audio,
                                          invocations[i].resolved),
              ![i].pc = "submit"]
    /\ UNCHANGED <<jobs, tempDir, callVars, responseMode>>

\* videoId = await this.shortCreator.addToQueue(...)
RunAddToQueue(i) ==
    /\ invocations[i].pc = "submit"
    /\ jobs' = Append(jobs, [owner |-> i, state |-> "queued"])
    /\ invocations' = [invocations EXCEPT ![i].videoId = Len(jobs) + 1,
                                          ![i].pc = "loop"]
    /\ UNCHANGED <<tempDir, callVars, responseMode>>

\* a status query that ends the loop: ready or failed
RunPoll(i) ==
    /\ invocations[i].pc = "loop"
    /\ jobs[invocations[i].videoId].state \in {"ready", "failed"}
    /\ invocations' =
          IF jobs[invocations[i].videoId].state = "ready"
            THEN [invocations EXCEPT ![i].pc = "returned"]
            ELSE [invocations EXCEPT ![i].raised = RenderFailedError,
                                     ![i].pc = "thrown"]
    /\ UNCHANGED <<jobs, tempDir, callVars, responseMode>>

\* the loop condition is false: throw new Error('Render timed out')
RunTimeout(i) ==
    /\ invocations[i].pc = "loop"
    /\ invocations' = [invocations EXCEPT ![i].raised = RenderTimeoutError,
                                          ![i].pc = "thrown"]
    /\ UNCHANGED <<jobs, tempDir, callVars, responseMode>>

\* if (this.config.responseMode === 'url') uploadVideo ... return
RunDispatch(i) ==
    /\ invocations[i].pc = "returned"
    /\ IF responseMode = "url"
         THEN \E written \in WriteOutcomes :
                IF written = "ok"
                  THEN /\ tempDir' = Append(tempDir,
                              [owner |-> i,
                               content |-> JobVideo(invocations[i].videoId)])
                       /\ invocations' =
                             [invocations EXCEPT
                                 ![i].reply = [kind |-> "url",
                                               value |-> UploadedUrl],
                                 ![i].pc = "done"]
                  ELSE /\ invocations' =
                             [invocations EXCEPT ![i].raised = UploadWriteError,
                                                 ![i].pc = "thrown"]
                       /\ UNCHANGED tempDir
         ELSE /\ invocations' =
                    [invocations EXCEPT
                        ![i].reply = [kind |-> "binary",
                                      value |-> JobVideo(invocations[i].videoId)],
                        ![i].pc = "done"]
              /\ UNCHANGED tempDir
    /\ UNCHANGED <<jobs, callVars, responseMode>>

\* catch (err): logger.error, throw new Error(`Rendering failed: ...`)
RunCatchExits(i) ==
    /\ invocations[i].pc = "thrown"
    /\ invocations' =
          [j \in Callers |->
              IF j = i
                THEN [invocations[i] EXCEPT
                         !.reply = [kind |-> "error",
                                    value |-> invocations[i].raised],
                         !.pc = "failed"]
                ELSE [invocations[j] EXCEPT !.pc = "killed"]]
    /\ UNCHANGED <<jobs, tempDir, callVars, responseMode>>

RunCatch(i) ==
    /\ invocations[i].pc = "thrown"
    /\ invocations' =
          [invocations EXCEPT
              ![i].reply = [kind |-> "error", value |-> invocations[i].raised],
              ![i].pc = "failed"]
    /\ UNCHANGED <<jobs, tempDir, callVars, responseMode>>

\* the rendering collaborator moves a job on
JobProgress ==
    /\ \E k \in 1..Len(jobs) :
          \/ /\ jobs[k].state = "queued"
             /\ jobs' = [jobs EXCEPT ![k].state = "rendering"]
          \/ /\ jobs[k].state = "rendering"
             /\ \E st \in {"ready", "failed"} :
                   jobs' = [jobs EXCEPT ![k].state = st]
    /\ UNCHANGED <<invocations, tempDir, callVars, responseMode>>

ConcurrentSpecInit ==
    /\ pc = "none"
    /\ request = None
    /\ responseMode \in {"binary", "url"}
    /\ resolved = <<>>
    /\ idx = 1
    /\ buffer = None
    /\ files = <<>>
    /\ downloads = <<>>
    /\ raised = None
    /\ plan = NoPlan
    /\ RenderInit
    /\ PipeInit
    /\ FetchInit
    /\ invocations \in [Callers -> {NotCalled(r) : r \in ConcurrentRequests}]
    /\ jobs = <<>>
    /\ tempDir = <<>>

ConcurrentNext ==
    \/ \E i \in Callers : AcceptRequest(i)
    \/ \E i \in Callers : EnterRenderVideo(i)
    \/ \E i \in Callers : RunValidateRequest(i)
    \/ \E i \in Callers : RunDownloadTtsAudio(i)
    \/ \E i \in Callers : RunResolveAsset(i)
    \/ \E i \in Callers : RunBuildRenderPlan(i)
    \/ \E i \in Callers : RunAddToQueue(i)
    \/ \E i \in Callers : RunPoll(i)
    \/ \E i \in Callers : RunTimeout(i)
    \/ \E i \in Callers : RunDispatch(i)
    \/ \E i \in Callers : RunCatch(i)
    \/ JobProgress

ConcurrentSpec == ConcurrentSpecInit /\ [][ConcurrentNext]_vars

(***************************************************************************)
(* Properties of the service under concurrent requests.                    *)
(***************************************************************************)
\* the stage of a call
CallStage(p) ==
    CASE p = "idle" -> 0
      [] p = "start" -> 1
      [] p = "validate" -> 2
      [] p = "audio" -> 3
      [] p = "resolve" -> 4
      [] p = "plan" -> 5
      [] p = "submit" -> 6
      [] p = "loop" -> 7
      [] p = "returned" -> 8
      [] p = "done" -> 9
      [] OTHER -> 10

\* a step of one call leaves the other calls, the jobs and the temp files
\* there are as they were
OthersUntouched ==
    \A i \in Callers :
        invocations'[i] # invocations[i] =>
            /\ \A j \in Callers \ {i} : invocations'[j] = invocations[j]
            /\ \A k \in 1..Len(jobs) : jobs'[k] = jobs[k]
            /\ \A k \in 1..Len(tempDir) : tempDir'[k] = tempDir[k]

\* a call goes through its own stages in order, or leaves to its own failure
OwnStages ==
    \A i \in Callers :
        LET a == CallStage(invocations[i].pc)
            b == CallStage(invocations'[i].pc)
        IN  \/ b = a
            \/ b = a + 1 /\ a < 9
            \/ b = 10 /\ invocations'[i].pc \in {"thrown", "failed", "crashed"}

\* what a call has produced and how it ended follow from its own request,
\* its own downloads and its own job
OwnOutcome(i) ==
    LET inv == invocations[i]
    IN  /\ \A k \in 1..Len(inv.resolved) :
               inv.resolved[k].localPath # NoPath =>
                   tempDir[inv.resolved[k].localPath] =
                       [owner |-> i,
                        content |-> Body(inv.request.config.assets[k].videoUrl)]
        /\ inv.plan # NoPlan =>
               inv.plan = BuildRenderPlan(inv.request, inv.audio, inv.resolved)
        /\ inv.videoId # 0 => jobs[inv.videoId].owner = i
        /\ inv.pc = "done" =>
               /\ ValidateRequest(inv.request) = "ok"
               /\ inv.plan # NoPlan
               /\ jobs[inv.videoId].state = "ready"
               /\ inv.reply = IF responseMode = "url"
                                THEN [kind |-> "url", value |-> UploadedUrl]
                                ELSE [kind |-> "binary",
                                      value |-> JobVideo(inv.videoId)]
        /\ inv.pc = "failed" =>
               /\ inv.reply = [kind |-> "error", value |-> inv.raised]
               /\ IF ValidateRequest(inv.request) # "ok"
                    THEN inv.raised = ValidateRequest(inv.request)
                    ELSE inv.raised \in {TtsFailedError, RenderFailedError,
                                         RenderTimeoutError, UploadWriteError}
               /\ inv.raised = RenderFailedError =>
                      jobs[inv.videoId].state = "failed"
               /\ inv.raised = UploadWriteError =>
                      jobs[inv.videoId].state = "ready"
        /\ inv.pc \in {"idle", "start", "validate", "audio", "resolve", "plan",
                       "submit", "loop", "returned", "done", "thrown",
                       "failed", "crashed"}

\* C28: failures are scoped to one request: with two requests on the same
\* service, a failure of one at any stage leaves the other's stages, plan
\* and outcome as they would be without it, and the service goes on to
\* accept and complete requests.
FailureScoped ==
    /\ [](\A i \in Callers : OwnOutcome(i))
    /\ [][OthersUntouched]_vars
    /\ [][OwnStages]_vars

\* the two calls ran together, call 1 wrote its temp file first and
\* submitted its job second; its render timed out, and call 2 completed
FailureScopedWitness ==
    /\ invocations[1].pc = "failed"
    /\ invocations[1].raised = RenderTimeoutError
    /\ invocations[2].pc = "done"
    /\ invocations[2].after = {}
    /\ invocations[2].videoId = 1
    /\ invocations[2].plan.scenes[1].assetPath = 2

(***************************************************************************)
(* Properties of resolveAssets.                                            *)
(***************************************************************************)
ResolveReturned == pc = "plan"

\* C9: whatever the outcomes of the downloads and of the temp-file writes,
\* resolveAssets completes, raises nothing, and returns as many entries as
\* there are assets.
ResolveNeverFails ==
    /\ <>ResolveReturned
    /\ [](raised = None /\ pc # "thrown")
    /\ [](ResolveReturned => Len(resolved) = Len(request.config.assets))

\* three assets: one download failed, one write failed, one has no url
ResolveNeverFailsWitness ==
    /\ ResolveReturned
    /\ Len(resolved) = 3
    /\ Len(downloads) = 2
    /\ \E k \in 1..2 : downloads[k].outcome = "http"
    /\ downloads[2].outcome = "ok"
    /\ files = <<>>

\* C10: the result is aligned with the input: entry i has the search terms
\* of asset i, and has a local path only if asset i has a videoUrl, the
\* download issued for asset i of that url succeeded, and the file holds the
\* bytes of that url.
ResolveAligned ==
    \A i \in 1..Len(resolved) :
        LET asset == request.config.assets[i] IN
        /\ i <= Len(request.config.assets)
        /\ resolved[i].searchTerms = asset.searchTerms
        /\ resolved[i].localPath # NoPath =>
              /\ asset.videoUrl # None
              /\ resolved[i].videoUrl = asset.videoUrl
              /\ \E k \in 1..Len(downloads) :
                     downloads[k] = [index |-> i, url |-> asset.videoUrl,
                                     outcome |-> "ok"]
              /\ resolved[i].localPath \in 1..Len(files)
              /\ files[resolved[i].localPath] = Body(asset.videoUrl)

\* the first download failed and the second one succeeded: entry 2 holds
\* the file, entry 1 the fallback
ResolveAlignedWitness ==
    /\ ResolveReturned
    /\ Len(resolved) = 2
    /\ resolved[1].localPath = NoPath
    /\ request.config.assets[1].videoUrl = "u1"
    /\ request.config.assets[1].searchTerms = "cat"
    /\ resolved[2].localPath = 1
    /\ request.config.assets[2].videoUrl = "u2"
    /\ request.config.assets[2].searchTerms = "dog"

(***************************************************************************)
(* PlanSpec: buildRenderPlan on every validated request of the bounds and  *)
(* every outcome of the asset resolution for it.                           *)
(***************************************************************************)
\* every result resolveAssets can return for assets: position i downloaded to
\* temp file i, or the fallback
Resolutions(assets) ==
    {r \in [1..Len(assets) -> {Downloaded(assets[i], i) : i \in 1..Len(assets)}
                              \cup {Fallback(assets[i]) : i \in 1..Len(assets)}] :
        \A i \in 1..Len(assets) :
            \/ r[i] = Fallback(assets[i])
            \/ assets[i].videoUrl # None /\ r[i] = Downloaded(assets[i], i)}

MaxTextLen == 3
CodePoints == {7, 65, 127, 159, 160, 173, 8203, 65535, 128512}
Texts == SeqsUpTo(CodePoints, MaxTextLen)

\* requests that differ in durations and assets, and requests of one scene
\* that differ in its text
PlanRequests ==
    {[scenes |-> sc,
      config |-> [assets |-> as, resolution |-> Res1080x1920]] :
        sc \in SeqsUpTo(Scenes, MaxScenes) \ {<<>>},
        as \in SeqsUpTo([searchTerms : {"cat"}, videoUrl : {"u1", None}],
                        MaxAssets)}
    \cup
    {[scenes |-> <<[duration |-> 1000, text |-> t, searchTerms |-> <<>>]>>,
      config |-> [assets |-> <<>>, resolution |-> Res1080x1920]] :
        t \in Texts}

PlanSpecInit ==
    /\ pc = "plan"
    /\ request \in PlanRequests
    /\ resolved \in Resolutions(request.config.assets)
    /\ idx = Len(request.config.assets) + 1
    /\ buffer = None
    /\ files = <<>>
    /\ downloads = <<>>
    /\ raised = None
    /\ plan = NoPlan
    /\ RenderInit
    /\ ServiceInit
    /\ responseMode = "binary"
    /\ correlationId \in CorrelationIds
    /\ audioBuffer = Body("tts")
    /\ log = <<>>
    /\ uploaded = <<>>
    /\ reply = NoReply
    /\ FetchInit

\* this.buildRenderPlan(...) called once more with the same arguments
BuildPlanAgain ==
    /\ pc = "submit"
    /\ plan' = BuildRenderPlan(request, audioBuffer, resolved)
    /\ pc' = "rebuilt"
    /\ UNCHANGED <<pipeVars, fetchVars, serviceVars, request, resolveVars, raised, renderVars>>

PlanNext ==
    \/ BuildPlan
    \/ BuildPlanAgain

PlanSpec == PlanSpecInit /\ [][PlanNext]_vars

(***************************************************************************)
(* Properties of buildRenderPlan.                                          *)
(***************************************************************************)
PlanBuilt == plan # NoPlan

RECURSIVE SumFrames(_, _)
SumFrames(scenes, n) ==
    IF n = 0 THEN 0 ELSE SumFrames(scenes, n - 1) + scenes[n].durationInFrames

\* C6: the plan of a validated request is gapless: the first scene starts at
\* frame 0 and every next scene starts where the previous one ends.
PlanGapless ==
    PlanBuilt =>
        /\ Len(plan.scenes) = Len(request.scenes)
        /\ plan.scenes[1].startFrame = 0
        /\ \A i \in 1..(Len(plan.scenes) - 1) :
               plan.scenes[i + 1].startFrame =
                   plan.scenes[i].startFrame + plan.scenes[i].durationInFrames

\* three scenes whose durations are no whole number of frames
PlanGaplessWitness ==
    /\ PlanBuilt
    /\ Len(plan.scenes) = 3
    /\ plan.scenes[1].duration = 34
    /\ plan.scenes[2].duration = 34
    /\ plan.scenes[3].startFrame = 4

\* C7: every scene's durationInFrames is ceil(durationMs * 30 / 1000), the
\* least whole number of frames that covers the duration, and so at least 1.
FramesAreCeiling ==
    PlanBuilt =>
        \A i \in 1..Len(plan.scenes) :
            LET n == plan.scenes[i].durationInFrames
                d == request.scenes[i].duration
            IN  /\ n * 1000 >= d * 30
                /\ (n - 1) * 1000 < d * 30
                /\ n >= 1

\* a scene of 1 ms gets one frame, a scene just over one frame gets two
FramesAreCeilingWitness ==
    /\ PlanBuilt
    /\ Len(plan.scenes) = 2
    /\ request.scenes[1].duration = 1
    /\ plan.scenes[1].durationInFrames = 1
    /\ request.scenes[2].duration = 34
    /\ plan.scenes[2].durationInFrames = 2

\* C8: the sum of the scenes' durationInFrames differs from
\* ceil(totalDurationMs * 30 / 1000) by at most the number of scenes.
FrameSumTolerance ==
    PlanBuilt =>
        LET n == Len(plan.scenes)
            diff == SumFrames(plan.scenes, n) - TotalFrames(request)
        IN  /\ diff <= n
            /\ -diff <= n

\* three scenes of 1 ms: three frames against ceil(0.09) = 1
FrameSumToleranceWitness ==
    /\ PlanBuilt
    /\ Len(plan.scenes) = 3
    /\ SumFrames(plan.scenes, 3) = 3
    /\ TotalFrames(request) = 1

\* C25: the plan binds assets to scenes by position: one scene per request
\* scene; scene i has a path exactly when resolved asset i exists and has
\* one, and then that one; scenes past a shorter assets list have none;
\* assets past the last scene are ignored.
AssetsBoundByPosition ==
    PlanBuilt =>
        /\ Len(plan.scenes) = Len(request.scenes)
        /\ \A i \in 1..Len(plan.scenes) :
               IF i <= Len(resolved) /\ resolved[i].localPath # NoPath
                 THEN plan.scenes[i].assetPath = resolved[i].localPath
                 ELSE plan.scenes[i].assetPath = NoPath

\* two scenes and three assets: the first downloaded, the second not, the
\* third downloaded and ignored
AssetsBoundByPositionWitness ==
    /\ PlanBuilt
    /\ Len(plan.scenes) = 2
    /\ Len(resolved) = 3
    /\ resolved[3].localPath = 3
    /\ plan.scenes[1].assetPath = 1
    /\ plan.scenes[2].assetPath = NoPath

\* format code points (category Cf) of the Basic Multilingual Plane
IsFormat(c) ==
    \/ c \in {173, 1564, 1757, 1807, 6158, 65279}
    \/ c \in 1536..1541
    \/ c \in 8203..8207
    \/ c \in 8234..8238
    \/ c \in 8288..8303
    \/ c \in 65529..65531

\* C26: the sanitized text is the text without its control code points,
\* its format code points and its code points outside the Basic
\* Multilingual Plane, every other code point kept in order.
SanitizedAsSpecified ==
    PlanBuilt =>
        \A i \in 1..Len(plan.scenes) :
            plan.scenes[i].text =
                SelectSeq(request.scenes[i].text,
                          LAMBDA c : /\ c \notin (0..31) \cup (127..159)
                                     /\ ~IsFormat(c)
                                     /\ c <= 65535)

\* every variable but pc and plan
BuildPlanInputs ==
    <<request, resolved, idx, buffer, files, downloads, raised, pipeVars,
      fetchVars, serviceVars, renderVars>>

Max(a, b) == IF a > b THEN a ELSE b

RECURSIVE TotalDurationInFrames(_, _)
\* scenes.reduce((max, s) => Math.max(max, s.startFrame + s.durationInFrames), 0)
TotalDurationInFrames(scenes, n) ==
    IF n = 0 THEN 0
    ELSE Max(TotalDurationInFrames(scenes, n - 1),
             scenes[n].startFrame + scenes[n].durationInFrames)

\* <Sequence from={scene.startFrame} durationInFrames={scene.durationInFrames}>
Shows(scene, f) ==
    scene.startFrame <= f /\ f < scene.startFrame + scene.durationInFrames

\* C30: every frame below the composition's total duration, the maximum of
\* startFrame + durationInFrames over the scenes, is shown by exactly one
\* scene, and that total is the sum of the scenes' durationInFrames.
FramesPartitioned ==
    PlanBuilt =>
        LET T == TotalDurationInFrames(plan.scenes, Len(plan.scenes))
        IN  /\ T = SumFrames(plan.scenes, Len(plan.scenes))
            /\ \A f \in 0..(T - 1) :
                   Cardinality({i \in 1..Len(plan.scenes) :
                                   Shows(plan.scenes[i], f)}) = 1

\* scenes of 34 ms, 1 ms and 1000 ms: 2 + 1 + 30 frames
FramesPartitionedWitness ==
    /\ PlanBuilt
    /\ Len(plan.scenes) = 3
    /\ plan.scenes[2].startFrame = 2
    /\ plan.scenes[3].startFrame = 3
    /\ TotalDurationInFrames(plan.scenes, 3) = 33

(***************************************************************************)
(* downloadWithTimeout(url, timeoutMs, timeoutError), one call followed    *)
(* step by step.  A timer is armed when the call is made and fires when    *)
(* it is due; clearTimeout disarms it.  Time passes while the call waits   *)
(* for the response headers and while it waits for the body.               *)
(***************************************************************************)
FetchTickMs == 5000
FetchTimeouts == {2 * FetchTickMs, DefaultDownloadTimeoutMs}
FetchMaxClock == 2 * DefaultDownloadTimeoutMs + 2 * FetchTickMs
Statuses == {200, 204, 404, 500}
FetchUrl == "u1"

Min(a, b) == IF a < b THEN a ELSE b

\* response.ok
Ok(st) == st \in 200..299

\* new Error(`${timeoutError}: HTTP ${response.status}`)
HttpError(st) == [name |-> "Error", kind |-> "http", status |-> st, ms |-> 0]
\* what fetch rejects with when the signal aborts
AbortError == [name |-> "AbortError", kind |-> "abort", status |-> 0, ms |-> 0]
\* what fetch or arrayBuffer rejects with when the transport fails
TransportError ==
    [name |-> "TypeError", kind |-> "network", status |-> 0, ms |-> 0]
\* new Error(`${timeoutError}: Timed out after ${timeoutMs}ms`)
TimedOutError(ms) ==
    [name |-> "Error", kind |-> "timeout", status |-> 0, ms |-> ms]

\* the catch block: what the call throws for the error it caught
CaughtAlwaysTimeout(err, ms) == TimedOutError(ms)

Caught(err, ms) ==
    IF err.name = "AbortError" THEN TimedOutError(ms) ELSE err

\* controller = new AbortController(); timeoutId = setTimeout(...);
\* fetch(url, { signal })
FetchCall ==
    /\ fetchPhase = "idle"
    /\ fetchStart' = clock
    /\ timerDue' = clock + fetchTimeoutMs
    /\ fetchPhase' = "headers"
    /\ UNCHANGED <<aborted, responseStatus, fetchError, fetchTimeoutMs,
                   pipeVars, serviceVars, pc, request, resolveVars, raised, plan,
                   renderVars>>

\* await fetch(...) resolves; clearTimeout(timeoutId); if (!response.ok) throw
HeadersArrive ==
    /\ fetchPhase = "headers"
    /\ \E st \in Statuses :
          /\ responseStatus' = st
          /\ timerDue' = -1
          /\ IF Ok(st)
               THEN /\ fetchPhase' = "body"
                    /\ UNCHANGED fetchError
               ELSE /\ fetchError' = Caught(HttpError(st), fetchTimeoutMs)
                    /\ fetchPhase' = "rejected"
    /\ UNCHANGED <<fetchStart, aborted, fetchTimeoutMs, pipeVars, serviceVars, pc, request,
                   resolveVars, raised, plan, renderVars>>

\* await fetch(...) rejects because the transport failed
HeadersFail ==
    /\ fetchPhase = "headers"
    /\ timerDue' = -1
    /\ fetchError' = Caught(TransportError, fetchTimeoutMs)
    /\ fetchPhase' = "rejected"
    /\ UNCHANGED <<fetchStart, aborted, responseStatus, fetchTimeoutMs,
                   pipeVars, serviceVars, pc, request, resolveVars, raised, plan,
                   renderVars>>

\* the timer fires: controller.abort(), and await fetch(...) rejects
Abort ==
    /\ timerDue >= 0
    /\ clock >= timerDue
    /\ aborted' = TRUE
    /\ timerDue' = -1
    /\ fetchError' = Caught(AbortError, fetchTimeoutMs)
    /\ fetchPhase' = "rejected"
    /\ UNCHANGED <<fetchStart, responseStatus, fetchTimeoutMs, pipeVars, serviceVars, pc,
                   request, resolveVars, raised, plan, renderVars>>

\* await response.arrayBuffer() resolves; return Buffer.from(arrayBuffer)
BodyArrives ==
    /\ fetchPhase = "body"
    /\ buffer' = Body(FetchUrl)
    /\ fetchPhase' = "resolved"
    /\ UNCHANGED <<fetchStart, timerDue, aborted, responseStatus, fetchError,
                   fetchTimeoutMs, pipeVars, serviceVars, pc, request, resolved, idx,
                   files, downloads, raised, plan, renderVars>>

\* await response.arrayBuffer() rejects
BodyFails ==
    /\ fetchPhase = "body"
    /\ timerDue' = -1
    /\ fetchError' = Caught(TransportError, fetchTimeoutMs)
    /\ fetchPhase' = "rejected"
    /\ UNCHANGED <<fetchStart, aborted, responseStatus, fetchTimeoutMs,
                   pipeVars, serviceVars, pc, request, resolveVars, raised, plan,
                   renderVars>>

\* time passes, up to the moment the armed timer is due
FetchTick ==
    /\ fetchPhase \in {"idle", "headers", "body"}
    /\ fetchPhase = "idle" => clock < FetchTickMs
    /\ clock < FetchMaxClock
    /\ timerDue >= 0 => clock < timerDue
    /\ clock' = IF timerDue >= 0 THEN Min(clock + FetchTickMs, timerDue)
                ELSE clock + FetchTickMs
    /\ UNCHANGED <<startTime, wakeAt, status, result, jobState, jobVideo,
                   readyAt, submitCount, statusCount, fetchCount, late,
                   fetchVars, serviceVars, pipeVars, pc, request, resolveVars, raised,
                   plan>>

FetchSpecInit ==
    /\ pc = "fetch"
    /\ request = GoodRequest
    /\ responseMode = "binary"
    /\ resolved = <<>>
    /\ idx = 1
    /\ buffer = None
    /\ files = <<>>
    /\ downloads = <<>>
    /\ raised = None
    /\ plan = NoPlan
    /\ RenderInit
    /\ ServiceInit
    /\ PipeInit
    /\ fetchPhase = "idle"
    /\ fetchStart = 0
    /\ timerDue = -1
    /\ aborted = FALSE
    /\ responseStatus = 0
    /\ fetchError = NoError
    /\ fetchTimeoutMs \in FetchTimeouts

FetchNext ==
    \/ FetchCall
    \/ HeadersArrive
    \/ HeadersFail
    \/ Abort
    \/ BodyArrives
    \/ BodyFails
    \/ FetchTick

FetchSpec == FetchSpecInit /\ [][FetchNext]_vars

(***************************************************************************)
(* Properties of downloadWithTimeout.                                      *)
(***************************************************************************)
FetchPending == fetchPhase \in {"headers", "body"}

\* C15: a call whose retrieval, headers and body, is not complete when
\* timeoutMs have elapsed is cancelled and fails with the timeout error:
\* no call is pending longer than timeoutMs.
NoFetchOutlivesTimeout ==
    FetchPending => clock - fetchStart <= fetchTimeoutMs

\* C16: a call fails in exactly one of three ways: with the http error,
\* carrying the status, exactly when a non-2xx response arrived; with the
\* timeout error, carrying timeoutMs, exactly when the timer fired; with the
\* transport's own error otherwise.
FailureClasses ==
    fetchPhase = "rejected" =>
        /\ fetchError.kind \in {"http", "timeout", "network"}
        /\ fetchError.kind = "http" <=>
               (responseStatus # 0 /\ ~Ok(responseStatus))
        /\ fetchError.kind = "timeout" <=> aborted
        /\ fetchError.kind = "http" => fetchError.status = responseStatus
        /\ fetchError.kind = "timeout" => fetchError.ms = fetchTimeoutMs
        /\ fetchError.kind = "network" => fetchError = TransportError

\* a 404 arrived at the very moment the timer was due, and was reported as
\* the http error
FailureClassesWitness ==
    /\ fetchPhase = "rejected"
    /\ fetchError = HttpError(404)
    /\ clock - fetchStart = fetchTimeoutMs
    /\ fetchStart > 0

(***************************************************************************)
(* Properties of renderVideo.                                              *)
(***************************************************************************)
\* the stage a position belongs to, in the order of renderVideo; 8 is the
\* failure exit
Stage(p) ==
    CASE p = "start" -> 0
      [] p = "validate" -> 1
      [] p = "audio" -> 2
      [] p \in {"resolve_loop", "resolve_fetch", "resolve_write"} -> 3
      [] p = "plan" -> 4
      [] p \in {"submit", "loop", "sleep"} -> 5
      [] p \in {"returned", "upload"} -> 6
      [] p = "done" -> 7
      [] p \in {"thrown", "failed", "crashed"} -> 8

\* the transport calls made for position i of assets; 0 is the audio
Fetches(i) == {k \in 1..Len(downloads) : downloads[k].index = i}

Replied == reply.kind \in {"binary", "url"}

\* C11: a failed asset download is never fatal: the entry at its position
\* has no local path, the invocation fails only after it has built the plan
\* and submitted the job, and only by the render or the upload, and once a
\* poll has seen the job ready it goes on to the response.
AssetFailureNotFatal ==
    \A k \in 1..Len(downloads) :
        (downloads[k].index >= 1 /\ downloads[k].outcome # "ok") =>
            /\ Len(resolved) >= downloads[k].index
            /\ resolved[downloads[k].index].localPath = NoPath
            /\ Stage(pc) = 8 =>
                  /\ PlanBuilt
                  /\ submitCount = 1
                  /\ raised \in {RenderFailedError, RenderTimeoutError,
                                 UploadWriteError}
            /\ status = "ready" =>
                  (pc \in {"returned", "upload", "done"}
                   \/ raised = UploadWriteError)
            /\ pc = "done" => Replied

\* the download of asset 1 ended in an HTTP error and the bytes of the
\* finished job were returned
AssetFailureNotFatalWitness ==
    /\ pc = "done"
    /\ Len(downloads) = 2
    /\ downloads[2] = [index |-> 1, url |-> "u1", outcome |-> "http"]
    /\ reply = [kind |-> "binary", value |-> "mp4_a"]

\* what the request violates, read off the request itself
BadResolution(resolution) ==
    Cardinality({i \in 1..Len(resolution) : resolution[i] = "x"}) # 1
    \/ resolution[1] \notin Digits \ {"0"}
BadScene(scene) ==
    scene.text \in {NotAString, <<>>, <<32>>} \/ scene.duration <= 0
InvalidRequest(req) ==
    /\ req.absent = {}
    /\ \/ req.scenes = <<>>
       \/ \E i \in 1..Len(req.scenes) : BadScene(req.scenes[i])
       \/ req.config.ttsUrl = ""
       \/ BadResolution(req.config.resolution)

\* C12: a request that fails validation fails before any network call: no
\* audio download, no asset download, no job, no upload.
ValidationBeforeNetwork ==
    InvalidRequest(request) =>
        /\ downloads = <<>>
        /\ audioBuffer = None
        /\ files = <<>>
        /\ submitCount = 0
        /\ statusCount = 0
        /\ uploaded = <<>>
        /\ pc \in {"start", "validate", "thrown", "failed"}
        /\ pc = "failed" => reply.kind = "error"

\* resolution "1080" was rejected
ValidationBeforeNetworkWitness ==
    /\ request.config.resolution = Res1080
    /\ request.scenes = GoodScenes
    /\ pc = "failed"
    /\ reply = [kind |-> "error", value |-> ResolutionFormatError]

\* C13: a failed audio download aborts the request: no asset download, no
\* plan, no job, no upload after it, and the invocation ends in failure.
AudioFailureAborts ==
    (\E k \in Fetches(0) : downloads[k].outcome # "ok") =>
        /\ Len(downloads) = 1
        /\ audioBuffer = None
        /\ resolved = <<>>
        /\ files = <<>>
        /\ plan = NoPlan
        /\ submitCount = 0
        /\ uploaded = <<>>
        /\ pc \in {"thrown", "failed"}
        /\ raised = TtsFailedError
        /\ ~Replied
        /\ pc = "failed" => reply = [kind |-> "error", value |-> TtsFailedError]

\* the audio download timed out and the request failed
AudioFailureAbortsWitness ==
    /\ pc = "failed"
    /\ downloads = <<[index |-> 0, url |-> "tts", outcome |-> "timeout"]>>
    /\ reply.kind = "error"

StageProducts ==
    /\ Stage(pc) \in 2..7 => ValidateRequest(request) = "ok"
    /\ Stage(pc) \in 3..7 => (audioBuffer # None /\ Cardinality(Fetches(0)) = 1)
    /\ Stage(pc) \in 4..7 => Len(resolved) = Len(request.config.assets)
    /\ Stage(pc) \in 5..7 => PlanBuilt
    /\ Stage(pc) \in 6..7 => (submitCount = 1 /\ result \in Videos)
    /\ Stage(pc) = 7 => Replied
    /\ Stage(pc) < 2 => downloads = <<>>
    /\ Stage(pc) < 3 => (resolved = <<>> /\ Len(downloads) <= 1)
    /\ Stage(pc) < 4 => plan = NoPlan
    /\ Stage(pc) < 5 => (submitCount = 0 /\ statusCount = 0)
    /\ Stage(pc) < 6 => (result = None /\ uploaded = <<>>)
    /\ Stage(pc) < 7 => reply = NoReply

StageStep ==
    \/ Stage(pc') = Stage(pc)
    \/ Stage(pc') = Stage(pc) + 1 /\ Stage(pc) < 7
    \/ Stage(pc') = 8 /\ Stage(pc) \in 0..6

\* C14: the stages run in the order validation, audio download, asset
\* resolution, plan building, job submission and polling, response: a stage
\* starts only when the one before it has succeeded, and none runs twice.
StageOrder ==
    /\ []StageProducts
    /\ [][StageStep]_vars

\* a request went through every stage, in url mode
StageOrderWitness ==
    /\ pc = "done"
    /\ reply.kind = "url"
    /\ Len(downloads) = 2
    /\ Len(files) = 1

\* C17: nothing is retried: at most one transport call for the audio url,
\* exactly one for each asset that has a videoUrl once the assets are
\* resolved, none for an asset without one, whatever the outcomes.
NothingRetried ==
    /\ \A k \in 1..Len(downloads) :
           /\ downloads[k].index \in 0..Len(request.config.assets)
           /\ Cardinality(Fetches(downloads[k].index)) = 1
           /\ downloads[k].url =
                  IF downloads[k].index = 0 THEN request.config.ttsUrl
                  ELSE request.config.assets[downloads[k].index].videoUrl
           /\ downloads[k].url # None
    /\ (Len(resolved) = Len(request.config.assets) /\ Stage(pc) > 3) =>
           \A i \in 1..Len(request.config.assets) :
               Cardinality(Fetches(i)) =
                   IF request.config.assets[i].videoUrl # None THEN 1 ELSE 0

\* the asset download failed, the render timed out, and there was one call
\* for the audio and one for the asset
NothingRetriedWitness ==
    /\ pc = "failed"
    /\ raised = RenderTimeoutError
    /\ Len(downloads) = 2
    /\ downloads[2].outcome = "network"

\* C18: in url mode a failed upload makes the request fail with that error;
\* the bytes are never returned in its place.
UploadFailureSurfaces ==
    raised = UploadWriteError =>
        /\ responseMode = "url"
        /\ uploaded = <<>>
        /\ ~Replied
        /\ pc \in {"thrown", "failed"}
        /\ pc = "failed" => reply = [kind |-> "error", value |-> UploadWriteError]

\* the job was ready, the upload failed, the request failed
UploadFailureSurfacesWitness ==
    /\ pc = "failed"
    /\ status = "ready"
    /\ reply = [kind |-> "error", value |-> UploadWriteError]

\* C19: in binary mode a successful invocation returns the bytes fetched
\* from the job, unchanged, and uploads nothing; in url mode it returns the
\* url of the uploaded file and never the bytes.
DispatchByMode ==
    /\ responseMode = "binary" => (uploaded = <<>> /\ reply.kind # "url")
    /\ responseMode = "url" => reply.kind # "binary"
    /\ pc = "done" =>
          IF responseMode = "binary"
            THEN reply = [kind |-> "binary", value |-> jobVideo]
            ELSE /\ reply = [kind |-> "url", value |-> UploadedUrl]
                 /\ reply.value \notin Videos
                 /\ uploaded = <<jobVideo>>

\* binary mode returned the job's bytes
DispatchByModeWitness ==
    /\ pc = "done"
    /\ responseMode = "binary"
    /\ reply.value = "mp4_b"
    /\ statusCount > 1

\* C20: every request that does not succeed, also one without its scenes or
\* config field, ends with the failure logged with the correlation id and
\* thrown as "Rendering failed: <cause>".
EveryFailureWrapped ==
    pc \in {"failed", "crashed"} =>
        /\ reply.kind = "error"
        /\ \E k \in 1..Len(log) :
               log[k] = [level |-> "error", msg |-> reply.value,
                         cid |-> correlationId]

\* C21: one correlation id per invocation: every log event of the
\* invocation carries it, and so does the error the invocation fails with.
CorrelationIdCarried ==
    /\ \A k \in 1..Len(log) : log[k].cid = correlationId
    /\ pc = "failed" =>
          ("cid" \in DOMAIN reply /\ reply.cid = correlationId)

\* the checks of the claim, numbered in its order: 1 scenes, 2 + i scene i
\* (0-based), 10 config present, 11 ttsUrl, 12 resolution
ViolatedChecks(req) ==
    {c \in {1} : "scenes" \in req.absent \/ req.scenes = <<>>}
    \cup {2 + (i - 1) : i \in {j \in 1..Len(req.scenes) : BadScene(req.scenes[j])}}
    \cup {c \in {10} : "config" \in req.absent}
    \cup {c \in {11} : req.config.ttsUrl \in {None, ""}}
    \cup {c \in {12} : BadResolution(req.config.resolution)}

EarliestViolated(req) ==
    CHOOSE c \in ViolatedChecks(req) : \A d \in ViolatedChecks(req) : c <= d

\* the check a validation message belongs to, 0 for any other message
CheckOf(msg) ==
    IF msg \in {"scenes must be an array", "scenes array cannot be empty"}
      THEN 1
    ELSE IF \E i \in 0..2 : msg \in {SceneTextNotString(i), SceneTextEmpty(i),
                                     SceneDurationNotPositive(i)}
      THEN 2 + (CHOOSE i \in 0..2 :
                    msg \in {SceneTextNotString(i), SceneTextEmpty(i),
                             SceneDurationNotPositive(i)})
    ELSE IF msg = "config is required" THEN 10
    ELSE IF msg \in {"config.ttsUrl must be a string",
                     "config.ttsUrl cannot be empty"} THEN 11
    ELSE IF msg \in {ResolutionFormatError, ResolutionValuesError} THEN 12
    ELSE 0

\* C22: a request that violates one or several validation checks is
\* rejected with the error of the earliest violated check, in the order
\* scenes, each scene, config present, ttsUrl, resolution; a request without
\* config is rejected with 'config is required'.
ValidationOrder ==
    (pc \in {"failed", "crashed"} /\ ViolatedChecks(request) # {}) =>
        /\ reply.kind = "error"
        /\ CheckOf(reply.value) = EarliestViolated(request)
        /\ EarliestViolated(request) = 10 => reply.value = "config is required"

\* C24: once the job orchestrator has finished, with the video, a failure
\* or a timeout, no temp file written by asset resolution is left.
TempFilesRemoved ==
    (\/ pc \in {"returned", "upload", "done"}
     \/ /\ pc \in {"thrown", "failed"}
        /\ raised \in {RenderFailedError, RenderTimeoutError, UploadWriteError})
        => files = <<>>

(***************************************************************************)
(* Properties of renderWithRemotion.                                       *)
(***************************************************************************)
Finished == pc \in {"returned", "thrown"}
TerminalStates == {"ready", "failed"}

\* C1: every invocation of renderWithRemotion eventually ends, with result
\* bytes or with an error, whatever the collaborator does with the job,
\* also when the job stays queued or rendering forever.
RenderTerminates ==
    <>(\/ pc = "returned" /\ result \in Videos
       \/ pc = "thrown" /\ raised \in {RenderFailedError, RenderTimeoutError})

\* the run ended although the job never reached a terminal state
RenderTerminatesWitness ==
    /\ Finished
    /\ jobState \in {"queued", "rendering"}
    /\ statusCount > 1

\* C2: a job that never leaves "queued" makes the render fail with
\* 'Render timed out', and no timeout failure is reported earlier than
\* 180000 ms after the job was submitted.
TimeoutNotEarly ==
    /\ raised = RenderTimeoutError => clock - startTime >= timeoutMs
    /\ (Finished /\ jobState = "queued") =>
           (pc = "thrown" /\ raised = RenderTimeoutError)

\* the job is still queued and the timeout is reported right at the deadline
TimeoutNotEarlyWitness ==
    /\ pc = "thrown"
    /\ raised = RenderTimeoutError
    /\ jobState = "queued"
    /\ clock - startTime = timeoutMs

\* C3: an invocation submits at most one job, exactly one once it is past
\* the submission, and none again after a failed or timed-out job.
OneJobPerRender ==
    /\ submitCount <= 1
    /\ pc # "submit" => submitCount = 1

\* the job failed and the run ended with that one submission
OneJobPerRenderWitness ==
    /\ pc = "thrown"
    /\ raised = RenderFailedError
    /\ submitCount = 1

PollOutcome ==
    /\ status = "ready" =>
           (pc = "returned" /\ fetchCount = 1 /\ result = jobVideo)
    /\ status = "failed" =>
           (pc = "thrown" /\ raised = RenderFailedError /\ fetchCount = 0)
    /\ status \in {"queued", "rendering"} =>
           (pc \in {"sleep", "loop"}
            \/ (pc = "thrown" /\ raised = RenderTimeoutError))

PollStep ==
    /\ status \in TerminalStates =>
           (statusCount' = statusCount /\ fetchCount' = fetchCount)
    /\ (pc = "sleep" /\ pc' # "sleep") => pc' = "loop"
    /\ (pc = "loop" /\ pc' # "loop") =>
           (statusCount' = statusCount + 1 \/ raised' = RenderTimeoutError)

\* C4: the first poll that sees "ready" fetches the result once and returns
\* those bytes, the first poll that sees "failed" fails with the
\* collaborator-failure error, neither is followed by another status query,
\* and a poll that sees "queued" or "rendering" is followed by another poll
\* or by the timeout.
PollContract ==
    /\ []PollOutcome
    /\ [][PollStep]_vars
    /\ (pc = "sleep") ~> (pc = "loop")
    /\ (pc = "loop") ~> (pc # "loop")

\* a poll saw "ready" after earlier polls had seen a non-terminal state
PollContractWitness ==
    /\ status = "ready"
    /\ pc = "returned"
    /\ statusCount > 2
    /\ result = "mp4_b"

DeadlineState ==
    /\ (Finished /\ status \notin TerminalStates) =>
           (pc = "thrown" /\ raised = RenderTimeoutError)
    /\ (jobState = "ready" /\ readyAt - startTime >= timeoutMs) =>
           (pc # "returned" /\ fetchCount = 0 /\ result = None)

DeadlineStep ==
    (clock - startTime >= timeoutMs /\ pc # "returned") =>
        /\ statusCount' = statusCount
        /\ fetchCount' = fetchCount
        /\ pc' # "returned"

\* C5: once 180000 ms have passed since the submission without a poll having
\* seen a terminal state, the render fails with the timeout error whatever
\* the collaborator reports: no status query and no getVideo call is made
\* any more, and a job that became ready only after the deadline is never
\* returned.
DeadlineIsFinal ==
    /\ []DeadlineState
    /\ [][DeadlineStep]_vars

\* the job became ready after the deadline and the render timed out
DeadlineIsFinalWitness ==
    /\ jobState = "ready"
    /\ readyAt - startTime >= timeoutMs
    /\ pc = "thrown"
    /\ raised = RenderTimeoutError

\* when the status query before this one was made: it set the timer
LastQueryAt == wakeAt - PollIntervalMs

QueryStep ==
    statusCount' # statusCount =>
        /\ statusCount' = statusCount + 1
        /\ clock - startTime < 180000
        /\ statusCount >= 1 => clock - LastQueryAt >= 1000

\* C29: in one render, consecutive status queries are at least 1000 ms
\* apart and every query is made less than 180000 ms after submission, so
\* there are never more than 180 queries for one job.
QueriesBounded ==
    /\ [](statusCount <= 180)
    /\ [](statusCount >= 1 => (statusCount - 1) * 1000 <= clock - startTime)
    /\ [][QueryStep]_vars

\* the 180th query was made, 179 s or more after submission
QueriesBoundedWitness ==
    /\ statusCount = 180
    /\ clock - startTime >= 179000
    /\ pc = "sleep"

(***************************************************************************)
(* useSceneAnimation                                                       *)
(***************************************************************************)
\* Math.max(5, Math.floor(durationFrames * 0.15)); for a whole number of
\* frames the product by 0.15 floors to the floor of 15 hundredths of it
enterDuration(durationFrames) == Max(5, (durationFrames * 15) \div 100)

\* durationFrames - enterDuration
exitStart(durationFrames) == durationFrames - enterDuration(durationFrames)

\* the input range of the opacity interpolation
OpacityKeyframes(durationFrames) ==
    <<0, enterDuration(durationFrames), exitStart(durationFrames),
      durationFrames>>

\* C31: for every scene of one frame or more, the opacity keyframes
\* [0, enterDuration, exitStart, durationInFrames] are in non-decreasing
\* order.
KeyframesOrdered ==
    PlanBuilt =>
        \A i \in 1..Len(plan.scenes) :
            LET k == OpacityKeyframes(plan.scenes[i].durationInFrames)
            IN  plan.scenes[i].durationInFrames >= 1 =>
                    /\ k[1] <= k[2]
                    /\ k[2] <= k[3]
                    /\ k[3] <= k[4]
====
